---- MODULE Spec2Model ----
(***************************************************************************)
(* Model of the domain availability checker (src/test.py).                  *)
(*                                                                         *)
(* run_checks creates one check_domain task per domain, all sharing one    *)
(* asyncio.Semaphore(concurrency), and collects their results through      *)
(* asyncio.as_completed.  asyncio is cooperative: a coroutine runs         *)
(* atomically from one await that really suspends to the next, so every    *)
(* action below is one such stretch of code.  The network is the           *)
(* environment: what a probe returns (or raises) is chosen with \E.        *)
(***************************************************************************)
EXTENDS Integers, Sequences, FiniteSets, TLC

(* ------------------------------ bounds --------------------------------- *)
NumDomains == 2          \* longest domain list handed to run_checks
MaxLines == 2            \* longest list.txt handed to remove_dead_domains
MaxConcurrency == 2      \* run_checks is tried with concurrency 1..MaxConcurrency

(* ------------------------- program constants --------------------------- *)
NumServers == 3          \* len(DNS_SERVERS)
retries == 2             \* check_dns(..., retries=2)
\* mutant: the ports are tried in the other order
TCP_PORTS_reversed == <<80, 443>>

TCP_PORTS == <<443, 80>> \* for port in (443, 80)

(* ------------------------------ values --------------------------------- *)
AllDomains == <<"example.com", "ghost.invalid", "cdn-root.example", "blocked-icmp.example">>
None == "None"
Addresses == {"93.184.216.34"}

NoDetails == [dns |-> FALSE, http |-> FALSE, tcp |-> FALSE, ping |-> FALSE]
NoResult == [kind |-> "none", alive |-> FALSE]

VARIABLES
    domains,       \* run_checks argument: unique names, as load_domains delivers them
    concurrency,   \* run_checks argument
    use_http,      \* run_checks argument
    semaphore,     \* free permits of asyncio.Semaphore(concurrency)
    pc,            \* per task: where check_domain is suspended
    details,       \* per task: the details dict
    ip_address,    \* per task: address returned by check_dns
    calls,         \* per task: probe invocations, in order, with their results
    result,        \* per task: whether it returned or raised, and the is_alive it returned
                   \* (the details it returned are the dict details[i] itself)
    done_queue,    \* as_completed: finished tasks not yet yielded
    yielded,       \* as_completed: number of tasks yielded so far
    alive,         \* run_checks local
    dead,          \* run_checks local
    processed,     \* run_checks local
    progress,      \* arguments of the progress_callback calls, in order (main passes
                   \* print_progress; without a callback the loop does nothing in its place)
    rc_pc,         \* run_checks: "collect", "returned", or "interrupted"/"cancelled"
                   \* after a KeyboardInterrupt
    proc,          \* per task: the ping child process of check_ping
    queries,       \* per task: the resolver queries check_dns has issued
    file,          \* list.txt on disk: its lines, each a sequence of tokens
    is_windows,    \* platform.system() is Windows
    rdd            \* the frame of remove_dead_domains: its arguments and locals

vars == <<domains, concurrency, use_http, semaphore, pc, details, ip_address,
          calls, result, done_queue, yielded, alive, dead, processed, progress, rc_pc,
          proc, queries, file, is_windows, rdd>>

\* what run_checks and its tasks own
batchVars == <<domains, concurrency, use_http, semaphore, pc, details, ip_address,
               calls, result, done_queue, yielded, alive, dead, processed, progress, rc_pc>>

\* what remove_dead_domains owns
fileVars == <<file, is_windows, rdd>>

\* what the steps of check_ping own
procVars == <<proc>>

\* what the steps of check_dns own
dnsVars == <<queries>>

total == Len(domains)
Tasks == 1..total          \* tasks[i] = check_domain(domains[i], semaphore, use_http)

(* --------------------------- probe call log ---------------------------- *)
Call(log, probe, target, port) ==
    Append(log, [probe |-> probe, target |-> target, port |-> port, res |-> "inflight"])

Returned(log, res) ==
    [log EXCEPT ![Len(log)].res = res]

(* ------------------------------ check_dns ------------------------------ *)
AOutcomes == Addresses \cup {"empty", "error", "raise"}
SoaOutcomes == {"ok", "error", "raise"}
NumQueries == retries * NumServers

DnsRet(ok, ip) == [kind |-> "ret", ok |-> ok, ip |-> ip]
DnsRaise == [kind |-> "raise", ok |-> FALSE, ip |-> None]

RECURSIVE check_dns_from(_, _)
check_dns_from(q, k) ==
    IF k > NumQueries THEN DnsRet(FALSE, None)
    ELSE IF q[k].a \in Addresses THEN DnsRet(TRUE, q[k].a)
    ELSE IF q[k].a = "empty" THEN check_dns_from(q, k + 1)
    ELSE IF q[k].a = "raise" THEN DnsRaise
    ELSE IF q[k].soa = "ok" THEN DnsRet(TRUE, None)
    ELSE IF q[k].soa = "raise" THEN DnsRaise
    ELSE check_dns_from(q, k + 1)

check_dns(q) == check_dns_from(q, 1)

\* the answers the resolvers give to one check_dns call: every server
\* answers the A query with a and the SOA query with s
Uniform(a, s) == [k \in 1..NumQueries |-> [a |-> a, soa |-> s]]

(* ----------------------------- check_domain ---------------------------- *)
\* mutant: the HTTP step forgets the DNS condition
http_wanted_nodns(dns_ok, uh) == uh

http_wanted(dns_ok, uh) == dns_ok /\ uh

\* mutant: the port loop runs without an address
tcp_wanted_always(ip) == TRUE

tcp_wanted(ip) == ip # None

\* mutant: the ping step forgets the fallback to the domain name
ping_target_nofallback(ip, domain) == ip

ping_target(ip, domain) == IF ip # None THEN ip ELSE domain

\* mutant: the zone-exists signal is left out of the verdict
is_alive_nodns(det) == det.http \/ det.tcp \/ det.ping

\* mutant: the verdict is the ping result alone
is_alive_pingonly(det) == det.ping

is_alive(det) == det.dns \/ det.http \/ det.tcp \/ det.ping

NormalResult(det) == [kind |-> "ret", alive |-> is_alive(det)]

\* mutant: the handler lets the exception escape the task
ExceptResult_reraise(det) == [kind |-> "raise", alive |-> FALSE]

\* mutant: the handler computes the verdict from the partial details
ExceptResult_verdict(det) == [kind |-> "ret", alive |-> is_alive(det)]

ExceptResult(det) == [kind |-> "ret", alive |-> FALSE]

\* suspend task i in the next probe
Goto(i, newpc, det, ip, log) ==
    /\ pc' = [pc EXCEPT ![i] = newpc]
    /\ details' = [details EXCEPT ![i] = det]
    /\ ip_address' = [ip_address EXCEPT ![i] = ip]
    /\ calls' = [calls EXCEPT ![i] = log]
    /\ UNCHANGED <<domains, concurrency, use_http, semaphore, result, done_queue,
                   yielded, alive, dead, processed, progress, rc_pc>>

\* mutant: the permit is not given back at the end of the cascade
Finish_norelease(i, res, det, ip, log) ==
    /\ pc' = [pc EXCEPT ![i] = "done"]
    /\ details' = [details EXCEPT ![i] = det]
    /\ ip_address' = [ip_address EXCEPT ![i] = ip]
    /\ calls' = [calls EXCEPT ![i] = log]
    /\ result' = [result EXCEPT ![i] = res]
    /\ done_queue' = Append(done_queue, i)
    /\ UNCHANGED <<domains, concurrency, use_http, semaphore, yielded, alive, dead,
                   processed, progress, rc_pc>>

\* task i returns res; leaving "async with semaphore" releases the permit
Finish(i, res, det, ip, log) ==
    /\ pc' = [pc EXCEPT ![i] = "done"]
    /\ details' = [details EXCEPT ![i] = det]
    /\ ip_address' = [ip_address EXCEPT ![i] = ip]
    /\ calls' = [calls EXCEPT ![i] = log]
    /\ result' = [result EXCEPT ![i] = res]
    /\ semaphore' = semaphore + 1
    /\ done_queue' = Append(done_queue, i)
    /\ UNCHANGED <<domains, concurrency, use_http, yielded, alive, dead,
                   processed, progress, rc_pc>>

\* steps 3 and 4 as entered after the HTTP step
StartTcpOrPing(i, det, ip, log) ==
    IF tcp_wanted(ip)
    THEN Goto(i, "tcp443", det, ip, Call(log, "tcp", ip, TCP_PORTS[1]))
    ELSE Goto(i, "ping", det, ip, Call(log, "ping", ping_target(ip, domains[i]), 0))

StartPing(i, det, ip, log) ==
    Goto(i, "ping", det, ip, Call(log, "ping", ping_target(ip, domains[i]), 0))

\* asyncio.Semaphore wakes waiters first-in first-out; tasks queue up in creation order
FirstWaiter(i) == \A j \in Tasks : pc[j] = "acquire" => i <= j

\* mutant: the task does not wait for a permit
Acquire_nowait(i) ==
    /\ pc[i] = "acquire"
    /\ FirstWaiter(i)
    /\ semaphore' = semaphore - 1
    /\ pc' = [pc EXCEPT ![i] = "dns"]
    /\ details' = [details EXCEPT ![i] = NoDetails]
    /\ calls' = [calls EXCEPT ![i] = Call(calls[i], "dns", domains[i], 0)]
    /\ UNCHANGED <<domains, concurrency, use_http, ip_address, result, done_queue,
                   yielded, alive, dead, processed, progress, rc_pc>>
    /\ UNCHANGED <<procVars, dnsVars, fileVars>>

\* mutant: entering the block takes no permit
Acquire_nodecrement(i) ==
    /\ pc[i] = "acquire"
    /\ semaphore > 0
    /\ FirstWaiter(i)
    /\ pc' = [pc EXCEPT ![i] = "dns"]
    /\ details' = [details EXCEPT ![i] = NoDetails]
    /\ calls' = [calls EXCEPT ![i] = Call(calls[i], "dns", domains[i], 0)]
    /\ UNCHANGED <<domains, concurrency, use_http, semaphore, ip_address, result,
                   done_queue, yielded, alive, dead, processed, progress, rc_pc>>
    /\ UNCHANGED <<procVars, dnsVars, fileVars>>

Acquire(i) ==
    /\ pc[i] = "acquire"
    /\ semaphore > 0
    /\ FirstWaiter(i)
    /\ semaphore' = semaphore - 1
    /\ pc' = [pc EXCEPT ![i] = "dns"]
    /\ details' = [details EXCEPT ![i] = NoDetails]
    /\ calls' = [calls EXCEPT ![i] = Call(calls[i], "dns", domains[i], 0)]
    /\ UNCHANGED <<domains, concurrency, use_http, ip_address, result, done_queue,
                   yielded, alive, dead, processed, progress, rc_pc>>
    /\ UNCHANGED <<procVars, dnsVars, fileVars>>

\* check_domain from the point where check_dns has given r
AfterDns(i, r) ==
    IF r.kind = "raise"
    THEN Finish(i, ExceptResult(details[i]), details[i], ip_address[i],
                Returned(calls[i], "raise"))
    ELSE LET det == [details[i] EXCEPT !.dns = r.ok]
             log == Returned(calls[i], IF r.ok THEN "ok" ELSE "fail")
         IN IF http_wanted(r.ok, use_http)
            THEN Goto(i, "http", det, r.ip, Call(log, "http", domains[i], 0))
            ELSE StartTcpOrPing(i, det, r.ip, log)

DnsReturn(i) ==
    /\ pc[i] = "dns"
    /\ \E a \in AOutcomes, s \in SoaOutcomes : AfterDns(i, check_dns(Uniform(a, s)))
    /\ UNCHANGED <<procVars, dnsVars, fileVars>>

(* ------------------------ check_dns, step by step ---------------------- *)
\* query number k of a check_dns call goes to this server, in this retry round
ServerOf(k) == ((k - 1) % NumServers) + 1
AttemptOf(k) == (k - 1) \div NumServers

\* mutant: a failed A query is not followed by the SOA query
NextQuery_nosoa(log) ==
    IF log = <<>> THEN [k |-> 1, rtype |-> "A"]
    ELSE [k |-> log[Len(log)].k + 1, rtype |-> "A"]

\* the query that follows the ones in log: the SOA query to the same server
\* in the except branch of a failed A query, else the A query to the next one
NextQuery(log) ==
    IF log = <<>> THEN [k |-> 1, rtype |-> "A"]
    ELSE LET last == log[Len(log)] IN
         IF last.rtype = "A" /\ last.outcome = "error"
         THEN [k |-> last.k, rtype |-> "SOA"]
         ELSE [k |-> last.k + 1, rtype |-> "A"]

\* one awaited resolver.query and what check_dns does with its outcome
DnsQuery(i) ==
    /\ pc[i] = "dns"
    /\ LET nq == NextQuery(queries[i]) IN
       \E o \in (IF nq.rtype = "A" THEN AOutcomes ELSE SoaOutcomes) :
          /\ queries' = [queries EXCEPT ![i] =
                 Append(@, [k |-> nq.k, server |-> ServerOf(nq.k),
                            attempt |-> AttemptOf(nq.k), rtype |-> nq.rtype,
                            outcome |-> o])]
          /\ IF o = "raise" THEN AfterDns(i, DnsRaise)
             ELSE IF o \in Addresses THEN AfterDns(i, DnsRet(TRUE, o))
             ELSE IF o = "ok" THEN AfterDns(i, DnsRet(TRUE, None))
             ELSE IF nq.rtype = "A" /\ o = "error"
                  THEN UNCHANGED <<domains, concurrency, use_http, semaphore, pc, details,
                                   ip_address, calls, result, done_queue, yielded, alive,
                                   dead, processed, progress, rc_pc>>
             ELSE IF nq.k = NumQueries THEN AfterDns(i, DnsRet(FALSE, None))
             ELSE UNCHANGED <<domains, concurrency, use_http, semaphore, pc, details,
                              ip_address, calls, result, done_queue, yielded, alive,
                              dead, processed, progress, rc_pc>>
    /\ UNCHANGED <<procVars, fileVars>>

\* mutant: the cascade returns as soon as HTTP succeeds
HttpReturn_shortcircuit(i) ==
    /\ pc[i] = "http"
    /\ \E o \in {"ok", "fail", "raise"} :
         IF o = "raise"
         THEN Finish(i, ExceptResult(details[i]), details[i], ip_address[i],
                     Returned(calls[i], "raise"))
         ELSE IF o = "ok"
         THEN Finish(i, NormalResult([details[i] EXCEPT !.http = TRUE]),
                     [details[i] EXCEPT !.http = TRUE], ip_address[i],
                     Returned(calls[i], o))
         ELSE StartTcpOrPing(i, [details[i] EXCEPT !.http = FALSE], ip_address[i],
                             Returned(calls[i], o))
    /\ UNCHANGED <<procVars, dnsVars, fileVars>>

HttpReturn(i) ==
    /\ pc[i] = "http"
    /\ \E o \in {"ok", "fail", "raise"} :
         IF o = "raise"
         THEN Finish(i, ExceptResult(details[i]), details[i], ip_address[i],
                     Returned(calls[i], "raise"))
         ELSE StartTcpOrPing(i, [details[i] EXCEPT !.http = (o = "ok")], ip_address[i],
                             Returned(calls[i], o))
    /\ UNCHANGED <<procVars, dnsVars, fileVars>>

\* mutant: the cascade returns as soon as a port answers
TcpReturn_shortcircuit(i) ==
    /\ pc[i] \in {"tcp443", "tcp80"}
    /\ \E o \in {"ok", "fail"} :
         LET log == Returned(calls[i], o) IN
         IF o = "ok"
         THEN Finish(i, NormalResult([details[i] EXCEPT !.tcp = TRUE]),
                     [details[i] EXCEPT !.tcp = TRUE], ip_address[i], log)
         ELSE IF pc[i] = "tcp443"
              THEN Goto(i, "tcp80", details[i], ip_address[i],
                        Call(log, "tcp", ip_address[i], TCP_PORTS[2]))
              ELSE StartPing(i, details[i], ip_address[i], log)
    /\ UNCHANGED <<procVars, dnsVars, fileVars>>

TcpReturn(i) ==
    /\ pc[i] \in {"tcp443", "tcp80"}
    /\ \E o \in {"ok", "fail"} :
         LET log == Returned(calls[i], o) IN
         IF o = "ok"
         THEN StartPing(i, [details[i] EXCEPT !.tcp = TRUE], ip_address[i], log)
         ELSE IF pc[i] = "tcp443"
              THEN Goto(i, "tcp80", details[i], ip_address[i],
                        Call(log, "tcp", ip_address[i], TCP_PORTS[2]))
              ELSE StartPing(i, details[i], ip_address[i], log)
    /\ UNCHANGED <<procVars, dnsVars, fileVars>>

\* check_ping as check_domain sees it: it returns True or False, or lets the
\* ProcessLookupError of proc.kill() escape (see PingTimeout)
AfterPing(i, o) ==
    IF o = "raise"
    THEN Finish(i, ExceptResult(details[i]), details[i], ip_address[i],
                Returned(calls[i], "raise"))
    ELSE LET det == [details[i] EXCEPT !.ping = (o = "ok")] IN
         Finish(i, NormalResult(det), det, ip_address[i], Returned(calls[i], o))

PingReturn(i) ==
    /\ pc[i] = "ping"
    /\ \E o \in {"ok", "fail", "raise"} : AfterPing(i, o)
    /\ UNCHANGED <<procVars, dnsVars, fileVars>>

(* ------------------------ check_ping, step by step --------------------- *)
\* create_subprocess_exec: the child runs, or the spawn fails and the
\* "except Exception" branch returns False
PingSpawn(i) ==
    /\ pc[i] = "ping"
    /\ proc[i] = "none"
    /\ \/ /\ proc' = [proc EXCEPT ![i] = "running"]
          /\ UNCHANGED <<domains, concurrency, use_http, semaphore, pc, details, ip_address,
                         calls, result, done_queue, yielded, alive, dead, processed,
                         progress, rc_pc>>
       \/ /\ proc' = [proc EXCEPT ![i] = "spawnfail"]
          /\ AfterPing(i, "fail")
    /\ UNCHANGED <<dnsVars, fileVars>>

\* the operating system: the ping child exits by itself, with status 0 or not
ChildExit(i) ==
    /\ proc[i] = "running"
    /\ \E st \in {"exited0", "exited1"} : proc' = [proc EXCEPT ![i] = st]
    /\ UNCHANGED <<dnsVars, fileVars>>
    /\ UNCHANGED <<domains, concurrency, use_http, semaphore, pc, details, ip_address,
                   calls, result, done_queue, yielded, alive, dead, processed,
                   progress, rc_pc>>

\* wait_for(proc.wait(), timeout + 2) returns: return proc.returncode == 0
PingWaitReturn(i) ==
    /\ pc[i] = "ping"
    /\ proc[i] \in {"exited0", "exited1"}
    /\ AfterPing(i, IF proc[i] = "exited0" THEN "ok" ELSE "fail")
    /\ UNCHANGED <<procVars, dnsVars, fileVars>>

\* wait_for raises TimeoutError: "if proc: proc.kill()" and return False.  If
\* the child has exited while the timeout was being delivered, the transport
\* has dropped the process and kill() raises ProcessLookupError, inside the
\* handler and so past "except Exception"
PingTimeout(i) ==
    /\ pc[i] = "ping"
    /\ proc[i] \in {"running", "exited0", "exited1"}
    /\ IF proc[i] = "running"
       THEN /\ proc' = [proc EXCEPT ![i] = "killed"]
            /\ AfterPing(i, "fail")
       ELSE /\ AfterPing(i, "raise")
            /\ UNCHANGED procVars
    /\ UNCHANGED <<dnsVars, fileVars>>

(* ------------------------------ run_checks ----------------------------- *)
\* one iteration of "for coro in asyncio.as_completed(tasks)"; after the last one
\* the loop ends and run_checks returns without suspending again
\* mutant: the callback gets the count before the increment
Collect_stalecount ==
    /\ rc_pc = "collect"
    /\ done_queue # <<>>
    /\ LET i == Head(done_queue)
           r == result[i]
           kept == r.kind = "ret"
       IN /\ done_queue' = Tail(done_queue)
          /\ yielded' = yielded + 1
          /\ alive' = IF kept /\ r.alive THEN Append(alive, <<domains[i], details[i]>>) ELSE alive
          /\ dead' = IF kept /\ ~r.alive THEN Append(dead, <<domains[i], details[i]>>) ELSE dead
          /\ processed' = IF kept THEN processed + 1 ELSE processed
          /\ progress' = IF kept
                         THEN Append(progress, <<processed, total>>)
                         ELSE progress
          /\ rc_pc' = IF yielded + 1 = total THEN "returned" ELSE "collect"
    /\ UNCHANGED <<domains, concurrency, use_http, semaphore, pc, details,
                   ip_address, calls, result>>
    /\ UNCHANGED <<procVars, dnsVars, fileVars>>

\* mutant: a collected outcome is put at the front of its list
Collect_prepend ==
    /\ rc_pc = "collect"
    /\ done_queue # <<>>
    /\ LET i == Head(done_queue)
           r == result[i]
           kept == r.kind = "ret"
       IN /\ done_queue' = Tail(done_queue)
          /\ yielded' = yielded + 1
          /\ alive' = IF kept /\ r.alive THEN <<(<<domains[i], details[i]>>)>> \o alive ELSE alive
          /\ dead' = IF kept /\ ~r.alive THEN <<(<<domains[i], details[i]>>)>> \o dead ELSE dead
          /\ processed' = IF kept THEN processed + 1 ELSE processed
          /\ progress' = IF kept
                         THEN Append(progress, <<processed + 1, total>>)
                         ELSE progress
          /\ rc_pc' = IF yielded + 1 = total THEN "returned" ELSE "collect"
    /\ UNCHANGED <<domains, concurrency, use_http, semaphore, pc, details,
                   ip_address, calls, result>>
    /\ UNCHANGED <<procVars, dnsVars, fileVars>>

Collect ==
    /\ rc_pc = "collect"
    /\ done_queue # <<>>
    /\ LET i == Head(done_queue)
           r == result[i]
           kept == r.kind = "ret"
       IN /\ done_queue' = Tail(done_queue)
          /\ yielded' = yielded + 1
          /\ alive' = IF kept /\ r.alive THEN Append(alive, <<domains[i], details[i]>>) ELSE alive
          /\ dead' = IF kept /\ ~r.alive THEN Append(dead, <<domains[i], details[i]>>) ELSE dead
          /\ processed' = IF kept THEN processed + 1 ELSE processed
          /\ progress' = IF kept
                         THEN Append(progress, <<processed + 1, total>>)
                         ELSE progress
          /\ rc_pc' = IF yielded + 1 = total THEN "returned" ELSE "collect"
    /\ UNCHANGED <<domains, concurrency, use_http, semaphore, pc, details,
                   ip_address, calls, result>>
    /\ UNCHANGED <<procVars, dnsVars, fileVars>>

(* -------------------------- remove_dead_domains ------------------------- *)
\* a string is a sequence of tokens: words, blanks and line terminators
Blank == {" ", "LF", "CRLF"}

RECURSIVE lstrip(_)
lstrip(t) == IF t # <<>> /\ Head(t) \in Blank THEN lstrip(Tail(t)) ELSE t

RECURSIVE rstrip(_)
rstrip(t) == IF t # <<>> /\ t[Len(t)] \in Blank THEN rstrip(SubSeq(t, 1, Len(t) - 1)) ELSE t

\* str.strip()
strip(t) == rstrip(lstrip(t))

LowerWord(w) == CASE w = "Y" -> "y" [] w = "N" -> "n" [] w = "YES" -> "yes" [] OTHER -> w

\* str.lower()
lower(t) == [j \in 1..Len(t) |-> LowerWord(t[j])]

\* reading in text mode: a line's terminator arrives as "\n"
ReadLine(raw) ==
    IF raw # <<>> /\ raw[Len(raw)] = "CRLF" THEN [raw EXCEPT ![Len(raw)] = "LF"] ELSE raw

\* writing in text mode: "\n" leaves as os.linesep
WriteLine(line, windows) ==
    IF line # <<>> /\ line[Len(line)] = "LF" /\ windows
    THEN [line EXCEPT ![Len(line)] = "CRLF"]
    ELSE line

NotAsked == <<"-">>
NoFrame == [pc |-> "idle", dead |-> <<>>, dead_domains |-> {}, lines |-> <<>>,
            new_lines |-> <<>>, removed |-> 0, n |-> 0, asked |-> <<>>, original |-> <<>>]

\* lines 314-321: the set of dead names, the file read as it is, the counters
RemoveStart ==
    /\ rdd.pc = "idle"
    /\ rdd.dead # <<>>
    /\ rdd' = [rdd EXCEPT !.pc = "loop",
                          !.dead_domains = {rdd.dead[k][1] : k \in 1..Len(rdd.dead)},
                          !.lines = [j \in 1..Len(file) |-> ReadLine(file[j])],
                          !.new_lines = <<>>,
                          !.removed = 0,
                          !.n = 1,
                          !.original = file]
    /\ UNCHANGED <<file, is_windows, batchVars, procVars, dnsVars>>

AtPrompt ==
    /\ rdd.pc = "loop"
    /\ rdd.n <= Len(rdd.lines)
    /\ \E d \in rdd.dead_domains : strip(rdd.lines[rdd.n]) = <<d>>

\* what the user may type at a prompt
Answers == {<<"y">>, <<"Y">>, <<" ", "y", " ">>, <<"n">>, <<"yes">>, <<>>}

\* one iteration of "for line in lines"
RemoveLine ==
    /\ rdd.pc = "loop"
    /\ rdd.n <= Len(rdd.lines)
    /\ LET line == rdd.lines[rdd.n] IN
       IF AtPrompt
       THEN \E a \in Answers :
              LET answer == lower(strip(a)) IN
              IF answer = <<"y">>
              THEN rdd' = [rdd EXCEPT !.removed = @ + 1, !.n = @ + 1,
                                      !.asked = Append(@, a)]
              ELSE rdd' = [rdd EXCEPT !.new_lines = Append(@, line), !.n = @ + 1,
                                      !.asked = Append(@, a)]
       ELSE rdd' = [rdd EXCEPT !.new_lines = Append(@, line), !.n = @ + 1,
                               !.asked = Append(@, NotAsked)]
    /\ UNCHANGED <<file, is_windows, batchVars, procVars, dnsVars>>

\* input() raises (end of input, Ctrl-C): the function is left before the write
RemoveAbort ==
    /\ AtPrompt
    /\ rdd' = [rdd EXCEPT !.pc = "aborted"]
    /\ UNCHANGED <<file, is_windows, batchVars, procVars, dnsVars>>

\* lines 346-348: the file is opened for writing and new_lines written
RemoveWrite ==
    /\ rdd.pc = "loop"
    /\ rdd.n > Len(rdd.lines)
    /\ file' = [j \in 1..Len(rdd.new_lines) |-> WriteLine(rdd.new_lines[j], is_windows)]
    /\ rdd' = [rdd EXCEPT !.pc = "written"]
    /\ UNCHANGED <<is_windows, batchVars, procVars, dnsVars>>

(* ------------------------------- __main__ ------------------------------ *)
\* KeyboardInterrupt while asyncio.run(run_checks(...)) is running: the main
\* task is cancelled and run_checks leaves "await coro" with CancelledError,
\* which "except Exception" does not catch
Interrupt ==
    /\ rc_pc = "collect"
    /\ rc_pc' = "interrupted"
    /\ UNCHANGED <<domains, concurrency, use_http, semaphore, pc, details, ip_address,
                   calls, result, done_queue, yielded, alive, dead, processed, progress>>
    /\ UNCHANGED <<procVars, dnsVars, fileVars>>

Suspended(i) == pc[i] \in {"dns", "http", "tcp443", "tcp80", "ping"}

\* asyncio.run then cancels every unfinished task: each gets CancelledError at
\* its await (no "except Exception" or "except TimeoutError" catches it) and
\* leaves "async with semaphore"; nothing in check_ping touches the child
CancelAllTasks ==
    /\ rc_pc = "interrupted"
    /\ rc_pc' = "cancelled"
    /\ pc' = [i \in Tasks |-> IF pc[i] = "done" THEN "done" ELSE "cancelled"]
    /\ calls' = [i \in Tasks |-> IF Suspended(i) THEN Returned(calls[i], "cancelled")
                                  ELSE calls[i]]
    /\ semaphore' = semaphore + Cardinality({i \in Tasks : Suspended(i)})
    /\ UNCHANGED <<domains, concurrency, use_http, details, ip_address, result,
                   done_queue, yielded, alive, dead, processed, progress>>
    /\ UNCHANGED <<procVars, dnsVars, fileVars>>

(* ---------------------------- specification ---------------------------- *)
Init ==
    /\ domains \in {SubSeq(AllDomains, 1, n) : n \in 1..NumDomains}
    /\ concurrency \in 1..MaxConcurrency
    /\ use_http \in BOOLEAN
    /\ semaphore = concurrency
    /\ pc = [i \in Tasks |-> "acquire"]
    /\ details = [i \in Tasks |-> NoDetails]
    /\ ip_address = [i \in Tasks |-> None]
    /\ calls = [i \in Tasks |-> <<>>]
    /\ result = [i \in Tasks |-> NoResult]
    /\ done_queue = <<>>
    /\ yielded = 0
    /\ alive = <<>>
    /\ dead = <<>>
    /\ processed = 0
    /\ progress = <<>>
    /\ rc_pc = "collect"
    /\ proc = [i \in Tasks |-> "none"]
    /\ queries = [i \in Tasks |-> <<>>]
    /\ file = <<>>
    /\ is_windows = FALSE
    /\ rdd = NoFrame

Next ==
    \/ \E i \in Tasks : Acquire(i)
    \/ \E i \in Tasks : DnsReturn(i)
    \/ \E i \in Tasks : HttpReturn(i)
    \/ \E i \in Tasks : TcpReturn(i)
    \/ \E i \in Tasks : PingReturn(i)
    \/ Collect

Spec == Init /\ [][Next]_vars

\* run_checks on a single domain: check_domain on its own
InitCascade == Init /\ total = 1

SpecCascade == InitCascade /\ [][Next]_vars

\* the event loop runs a callback that is ready: a probe that has been started
\* returns, a woken waiter enters, a finished task is collected
FairSpec == Spec /\ WF_vars(Next)

\* the batch with check_ping taken step by step, and the user's interrupt
NextProcess ==
    \/ \E i \in Tasks : Acquire(i)
    \/ \E i \in Tasks : DnsReturn(i)
    \/ \E i \in Tasks : HttpReturn(i)
    \/ \E i \in Tasks : TcpReturn(i)
    \/ \E i \in Tasks : PingSpawn(i)
    \/ \E i \in Tasks : ChildExit(i)
    \/ \E i \in Tasks : PingWaitReturn(i)
    \/ \E i \in Tasks : PingTimeout(i)
    \/ Collect
    \/ Interrupt
    \/ CancelAllTasks

SpecProcess == Init /\ [][NextProcess]_vars

\* one domain, with check_dns taken query by query
NextDns ==
    \/ \E i \in Tasks : Acquire(i)
    \/ \E i \in Tasks : DnsQuery(i)
    \/ \E i \in Tasks : HttpReturn(i)
    \/ \E i \in Tasks : TcpReturn(i)
    \/ \E i \in Tasks : PingReturn(i)
    \/ Collect

SpecDns == InitCascade /\ [][NextDns]_vars

\* the texts a line of list.txt is drawn from, and the terminators
LineTexts == {<<"example.com">>, <<" ", "example.com", " ">>, <<"example.org">>,
              <<"#", " ", "example.com">>, <<" ">>, <<>>}
Terminators == {<<"LF">>, <<"CRLF">>}
Terminated == {t \o e : t \in LineTexts, e \in Terminators}

\* every line ends with a terminator, but the last one need not
Files ==
    UNION {{f \in [1..n -> Terminated \cup (LineTexts \ {<<>>})] :
                \A j \in 1..(n - 1) : f[j] \in Terminated} : n \in 1..MaxLines}

DeadLists == {<<(<<"example.com", NoDetails>>)>>, <<(<<"example.org", NoDetails>>)>>,
              <<(<<"example.org", NoDetails>>), (<<"example.com", NoDetails>>)>>}

\* remove_dead_domains(file_path, dead) taken alone, no batch running
InitRemove ==
    /\ domains = <<>>
    /\ concurrency = 1
    /\ use_http = TRUE
    /\ semaphore = concurrency
    /\ pc = <<>>
    /\ details = <<>>
    /\ ip_address = <<>>
    /\ calls = <<>>
    /\ result = <<>>
    /\ done_queue = <<>>
    /\ yielded = 0
    /\ alive = <<>>
    /\ dead = <<>>
    /\ processed = 0
    /\ progress = <<>>
    /\ rc_pc = "returned"
    /\ proc = <<>>
    /\ queries = <<>>
    /\ file \in Files
    /\ is_windows \in BOOLEAN
    /\ \E d \in DeadLists : rdd = [NoFrame EXCEPT !.dead = d]

NextRemove ==
    \/ RemoveStart
    \/ RemoveLine
    \/ RemoveAbort
    \/ RemoveWrite

SpecRemove == InitRemove /\ [][NextRemove]_vars

(* ------------------------ what the probes were asked -------------------- *)
Invoked(i, p) == {k \in 1..Len(calls[i]) : calls[i][k].probe = p}
Ok(i, p) == \E k \in 1..Len(calls[i]) : calls[i][k].probe = p /\ calls[i][k].res = "ok"
InFlightCall(i, p) ==
    \E k \in 1..Len(calls[i]) : calls[i][k].probe = p /\ calls[i][k].res = "inflight"
Raised(i) == \E k \in 1..Len(calls[i]) : calls[i][k].res = "raise"
RaisedIn(i, p) ==
    \E k \in 1..Len(calls[i]) : calls[i][k].probe = p /\ calls[i][k].res = "raise"
Done(i) == pc[i] = "done"

DnsFailed(i) == calls[i] # <<>> /\ calls[i][1].res = "fail"
DnsWithAddress(i) == Ok(i, "dns") /\ ip_address[i] # None
DnsSoaOnly(i) == Ok(i, "dns") /\ ip_address[i] = None
HttpFailedOrSkipped(i) == \A k \in Invoked(i, "http") : calls[i][k].res = "fail"
PingReturned(i) == \E k \in Invoked(i, "ping") : calls[i][k].res \in {"ok", "fail"}
PingAt(i, target) == \A k \in Invoked(i, "ping") : calls[i][k].target = target

\* the flags as the probes' own results give them
Gathered(i) == [dns |-> Ok(i, "dns"), http |-> Ok(i, "http"),
                tcp |-> Ok(i, "tcp"), ping |-> Ok(i, "ping")]

Occurrences(d, s) == Cardinality({k \in 1..Len(s) : s[k][1] = d})
InFlight == {i \in Tasks : pc[i] \in {"dns", "http", "tcp443", "tcp80", "ping"}}

(* -------------------------------- claims ------------------------------- *)

\* C1: when run_checks returns, every input domain appears exactly once in
\* alive ++ dead, so len(alive) + len(dead) = len(domains), whatever the
\* probes returned or raised.
C1_Partition ==
    rc_pc = "returned" =>
        /\ \A i \in Tasks : Occurrences(domains[i], alive \o dead) = 1
        /\ Len(alive) + Len(dead) = total

C1_Witness ==
    /\ rc_pc = "returned"
    /\ concurrency < total
    /\ \E i \in Tasks : Raised(i)
    /\ alive # <<>>
    /\ dead # <<>>

C4_DnsFailure ==
    \A i \in Tasks : DnsFailed(i) =>
        /\ Invoked(i, "http") = {}
        /\ Invoked(i, "tcp") = {}
        /\ Cardinality(Invoked(i, "ping")) = 1
        /\ PingAt(i, domains[i])
        /\ Done(i) =>
             /\ result[i].alive <=> Ok(i, "ping")
             /\ details[i] =
                    [dns |-> FALSE, http |-> FALSE, tcp |-> FALSE, ping |-> Ok(i, "ping")]

C4_Witness ==
    /\ use_http
    /\ rc_pc = "returned"
    /\ \E i \in Tasks :
           /\ DnsFailed(i) /\ Done(i) /\ Ok(i, "ping")
           /\ Occurrences(domains[i], alive) = 1

\* C5: DNS succeeded without an address and every other probe returned
\* failure or was skipped: the domain is classified alive, with and without
\* the HTTP step.
C5_SoaOnlyAlive ==
    \A i \in Tasks :
        (Done(i) /\ DnsSoaOnly(i) /\ ~Raised(i)
           /\ ~Ok(i, "http") /\ ~Ok(i, "tcp") /\ ~Ok(i, "ping")) =>
        /\ result[i].alive
        /\ rc_pc = "returned" => Occurrences(domains[i], alive) = 1

C5_Witness ==
    /\ rc_pc = "returned"
    /\ \E i \in Tasks :
           /\ Done(i) /\ DnsSoaOnly(i) /\ ~Raised(i)
           /\ use_http => Invoked(i, "http") # {}
           /\ ~Ok(i, "http") /\ ~Ok(i, "tcp") /\ ~Ok(i, "ping")
           /\ Occurrences(domains[i], alive) = 1

\* C6 as stated: when DNS returns (true, none) none of HTTP, TCP and Ping is
\* invoked and the outcome is alive with {dns:true, http:false, tcp:false,
\* ping:false}.
C6_Original ==
    \A i \in Tasks : DnsSoaOnly(i) =>
        /\ Invoked(i, "http") = {}
        /\ Invoked(i, "tcp") = {}
        /\ Invoked(i, "ping") = {}
        /\ Done(i)
        /\ result[i].alive
        /\ details[i] = [dns |-> TRUE, http |-> FALSE, tcp |-> FALSE, ping |-> FALSE]

\* C6 amended: when DNS returns (true, none) no TCP probe is invoked, HTTP is
\* invoked iff use_http, and once HTTP has returned Ping is invoked exactly
\* once on the raw domain name; the outcome is alive with dns:true, tcp:false
\* and http, ping as those probes answered.  If HTTP raises, Ping is not
\* invoked and the outcome is dead with dns:true; if Ping raises the outcome
\* is dead too.
C6_SoaOnlyCascade ==
    \A i \in Tasks : DnsSoaOnly(i) =>
        /\ Invoked(i, "tcp") = {}
        /\ Invoked(i, "http") # {} <=> use_http
        /\ PingAt(i, domains[i])
        /\ Cardinality(Invoked(i, "ping")) =
               (IF RaisedIn(i, "http") \/ InFlightCall(i, "http") THEN 0 ELSE 1)
        /\ Done(i) =>
             /\ result[i].alive <=> ~Raised(i)
             /\ details[i] =
                    [dns |-> TRUE, http |-> Ok(i, "http"), tcp |-> FALSE, ping |-> Ok(i, "ping")]

C6_Witness ==
    \E i \in Tasks :
        /\ DnsSoaOnly(i)
        /\ Done(i)
        /\ Invoked(i, "http") # {}
        /\ Invoked(i, "ping") # {}
        /\ result[i].alive

\* C7: the number of domains whose cascade is in flight never exceeds the
\* concurrency limit, also when more tasks than permits were created.
C7_ConcurrencyBound ==
    Cardinality(InFlight) <= concurrency

C7_Witness ==
    /\ Cardinality(InFlight) = concurrency
    /\ concurrency < total
    /\ \E i \in Tasks : pc[i] = "acquire"

\* C8 as stated: DNS succeeded and the cascade reached Ping because HTTP
\* failed or was skipped and TCP failed or had no address: the verdict equals
\* the ping result.
C8_Original ==
    \A i \in Tasks :
        (Done(i) /\ Ok(i, "dns") /\ HttpFailedOrSkipped(i) /\ ~Ok(i, "tcp")
           /\ PingReturned(i)) =>
        (result[i].alive <=> Ok(i, "ping"))

\* C8 amended: DNS succeeded and the cascade reached Ping because HTTP failed
\* or was skipped and TCP failed or had no address: the verdict is alive
\* whatever the ping result, because dns is one of the four signals.
C8_AliveAfterDns ==
    \A i \in Tasks :
        (Done(i) /\ Ok(i, "dns") /\ HttpFailedOrSkipped(i) /\ ~Ok(i, "tcp")
           /\ PingReturned(i)) =>
        /\ result[i].alive
        /\ details[i].ping <=> Ok(i, "ping")

C8_Witness ==
    /\ rc_pc = "returned"
    /\ \E i \in Tasks :
           /\ Done(i) /\ DnsWithAddress(i) /\ HttpFailedOrSkipped(i) /\ ~Ok(i, "tcp")
           /\ Cardinality(Invoked(i, "tcp")) = 2
           /\ PingReturned(i) /\ ~Ok(i, "ping")
           /\ Occurrences(domains[i], alive) = 1

\* C9: a domain is reported alive iff at least one of the four flags of its
\* detail record is true, for every outcome, the exception path included.
C9_AliveIffAnyFlag ==
    /\ \A i \in Tasks : result[i].kind = "ret" =>
           (result[i].alive <=> (details[i].dns \/ details[i].http
                                   \/ details[i].tcp \/ details[i].ping))
    /\ \A k \in 1..Len(dead) :
           ~(dead[k][2].dns \/ dead[k][2].http \/ dead[k][2].tcp \/ dead[k][2].ping)
    /\ \A k \in 1..Len(alive) :
           alive[k][2].dns \/ alive[k][2].http \/ alive[k][2].tcp \/ alive[k][2].ping

C12_CancelKillsPing ==
    rc_pc = "cancelled" =>
        /\ \A i \in Tasks : ~Suspended(i)
        /\ \A i \in Tasks : \A k \in 1..Len(calls[i]) : calls[i][k].res # "inflight"
        /\ \A i \in Tasks : proc[i] # "running"

\* C13: a ping whose bounded wait expired has had its child killed and gave
\* false; spawn failure, timeout and non-zero exit all give false; check_ping
\* never lets an exception reach its caller.
C13_PingNeverRaises ==
    \A i \in Tasks :
        /\ ~RaisedIn(i, "ping")
        /\ (Done(i) /\ proc[i] \in {"spawnfail", "exited1", "killed"}) =>
               (~Ok(i, "ping") /\ ~details[i].ping)
        /\ (Done(i) /\ Invoked(i, "ping") # {}) => proc[i] # "running"

\* C11: the progress callback is called once per collected evaluator: the k-th
\* call has arguments (k, total), and when run_checks returns it has been
\* called exactly total times, the last call being (total, total).
C11_ProgressCalls ==
    /\ \A k \in 1..Len(progress) : progress[k] = <<k, total>>
    /\ Len(progress) = processed
    /\ processed = yielded
    /\ rc_pc = "returned" =>
           /\ Len(progress) = total
           /\ progress[total] = <<total, total>>

C11_Witness ==
    /\ rc_pc = "returned"
    /\ total > 1
    /\ \E i \in Tasks : Raised(i)
    /\ progress[total] = <<total, total>>

\* position of a probe call in the cascade DNS, HTTP, TCP 443, TCP 80, Ping
CascadeRank(c) ==
    CASE c.probe = "dns" -> 1
      [] c.probe = "http" -> 2
      [] c.probe = "tcp" /\ c.port = 443 -> 3
      [] c.probe = "tcp" /\ c.port = 80 -> 4
      [] c.probe = "ping" -> 5
      [] OTHER -> 0

\* C15: the probe calls of one domain come in the order DNS, HTTP, TCP 443,
\* TCP 80, Ping, each at most once, and only the latest call of a domain can
\* be in flight: a probe starts after the previous one of that domain ended.
C15_CascadeOrder ==
    \A i \in Tasks :
        /\ calls[i] # <<>> => CascadeRank(calls[i][1]) > 0
        /\ \A k \in 1..(Len(calls[i]) - 1) :
               /\ CascadeRank(calls[i][k]) < CascadeRank(calls[i][k + 1])
               /\ calls[i][k].res # "inflight"

\* probes of two domains overlap while one of them is at the end of a full cascade
C15_Witness ==
    \E i, j \in Tasks :
        /\ i # j
        /\ Len(calls[i]) = 5
        /\ InFlightCall(i, "ping")
        /\ InFlightCall(j, "dns")

\* C16: once a cascade has started there is exactly one DNS call, on the
\* domain name; an address is held only from a successful DNS call; every TCP
\* call targets that address and is made only if there is one; Ping targets
\* the address if there is one and the domain name otherwise.
C16_AddressReuse ==
    \A i \in Tasks :
        /\ pc[i] # "acquire" =>
               /\ Cardinality(Invoked(i, "dns")) = 1
               /\ calls[i][1].probe = "dns" /\ calls[i][1].target = domains[i]
        /\ ip_address[i] # None => Ok(i, "dns")
        /\ \A k \in Invoked(i, "tcp") :
               ip_address[i] # None /\ calls[i][k].target = ip_address[i]
        /\ \A k \in Invoked(i, "ping") :
               calls[i][k].target = (IF ip_address[i] # None THEN ip_address[i]
                                     ELSE domains[i])

C16_Witness ==
    \E i \in Tasks :
        /\ Done(i)
        /\ ip_address[i] \in Addresses
        /\ Cardinality(Invoked(i, "tcp")) = 2
        /\ \E k \in Invoked(i, "ping") : calls[i][k].target = ip_address[i]

\* C17: free permits plus cascades in flight equal the concurrency limit in
\* every state; a probe is in flight only for a task that holds a permit; a
\* finished task, by return or by exception, holds none; when run_checks
\* returns all permits are free.
C17_PermitsConserved ==
    /\ semaphore >= 0
    /\ semaphore + Cardinality(InFlight) = concurrency
    /\ \A i \in Tasks :
           /\ pc[i] = "acquire" => calls[i] = <<>>
           /\ pc[i] = "done" =>
                  \A k \in 1..Len(calls[i]) : calls[i][k].res # "inflight"
    /\ rc_pc = "returned" => semaphore = concurrency

C17_Witness ==
    /\ rc_pc = "returned"
    /\ concurrency < total
    /\ semaphore = concurrency
    /\ \E i, j \in Tasks : Raised(i) /\ Done(j) /\ ~Raised(j)

\* C18: under fair scheduling every waiting evaluator gets a permit, every
\* evaluator completes and run_checks returns, with more domains than permits
\* too.
C18_Termination ==
    <>(rc_pc = "returned" /\ \A i \in Tasks : Done(i))

C18_Witness ==
    /\ rc_pc = "returned"
    /\ concurrency < total
    /\ \A i \in Tasks : Done(i)
    /\ yielded = total

\* C19: results are collected one completion at a time in completion order:
\* a finishing evaluator goes to the back of the completion stream, and each
\* step that changes alive or dead appends the outcome at the front of the
\* stream to the end of exactly one of them.
C19_CompletionOrder ==
    [][ /\ \A i \in Tasks : (pc[i] # "done" /\ pc'[i] = "done") =>
               done_queue' = Append(done_queue, i)
        /\ (alive' # alive \/ dead' # dead) =>
               /\ done_queue # <<>>
               /\ done_queue' = Tail(done_queue)
               /\ LET e == <<domains[Head(done_queue)], details[Head(done_queue)]>> IN
                  \/ alive' = Append(alive, e) /\ dead' = dead
                  \/ dead' = Append(dead, e) /\ alive' = alive ]_vars

\* both domains alive, listed against the input order
C19_Witness ==
    /\ rc_pc = "returned"
    /\ Len(alive) = 2
    /\ alive[1][1] = domains[2]
    /\ alive[2][1] = domains[1]

QueryFailed(i, k, rtype) ==
    \E j \in 1..Len(queries[i]) :
        queries[i][j].k = k /\ queries[i][j].rtype = rtype /\ queries[i][j].outcome = "error"

\* the A query got an answer without an address record (line 38 is false)
QueryEmpty(i, k) ==
    \E j \in 1..Len(queries[i]) :
        queries[i][j].k = k /\ queries[i][j].rtype = "A" /\ queries[i][j].outcome = "empty"

Confirmed(a) == a # NotAsked /\ lower(strip(a)) = <<"y">>

RECURSIVE KeptLines(_, _)
KeptLines(ls, as) ==
    IF ls = <<>> THEN <<>>
    ELSE (IF Confirmed(Head(as)) THEN <<>> ELSE <<Head(ls)>>) \o KeptLines(Tail(ls), Tail(as))

\* C20: the rewritten file holds the original lines, in order and unchanged,
\* without the deleted ones; a deleted line is one whose stripped text is a
\* dead domain and for which the user answered 'y'; every other line stays.
C20_LinesPreserved ==
    rdd.pc = "written" =>
        /\ Len(rdd.asked) = Len(rdd.original)
        /\ file = KeptLines(rdd.original, rdd.asked)
        /\ \A j \in 1..Len(rdd.original) :
               Confirmed(rdd.asked[j]) =>
                   \E d \in rdd.dead_domains : strip(rdd.original[j]) = <<d>>

====
